---- MODULE Spec2Model ----
(***************************************************************************)
(* clashprobe_bot: poll -> reduce -> format -> edit-if-changed.            *)
(*                                                                         *)
(* Optional values (Python None) are modelled as sequences of length <= 1: *)
(* None is <<>> and a present value v is <<v>>.  Python strings that the   *)
(* code inspects character by character (node names) are sequences of      *)
(* one-character strings; rendered text is a sequence of string fragments, *)
(* "\n" being the line separator.                                          *)
(***************************************************************************)
EXTENDS Integers, Sequences, FiniteSets, TLC

VARIABLES
    cfg,          \* the Config object handed to update_cycle
    state,        \* BotState: [msg_ref, last_hash]
    disk,         \* content of data/state.json
    pc,           \* position of the update cycle: "idle", "edit", "sleep"
    cyc,          \* locals of the cycle in flight / of the last cycle
    hist,         \* observations of the chat platform and of the scheduler:
                  \* the last cycle, the text last published, /init_status
    in_data,      \* reduce_status / format input: dict name -> NodePoint
    in_cfg,       \* its keyword arguments: latency_warn_ms, show_protocol, now
    out_statuses, \* result of reduce_status
    out_text,     \* result of format_markdown_v2
    rpc           \* position of the pure pipeline: "start", "reduced", "formatted"

vars == <<cfg, state, disk, pc, cyc, hist, in_data, in_cfg, out_statuses, out_text, rpc>>
procVars == <<cfg, state, disk, pc, cyc, hist>>
pureVars == <<in_data, in_cfg, out_statuses, out_text, rpc>>

-----------------------------------------------------------------------------
(* Bounds *)

NumNames == 3        \* node names: the first NumNames of NamePool
MaxReduceNodes == 1  \* nodes in one window handed to reduce_status alone
MaxLatency == 2      \* latency samples are 0..MaxLatency
MaxNow == 2          \* clock readings are 0..MaxNow half-seconds
MaxInits == 1        \* /init_status commands handled
MaxTime == 2         \* sample timestamps of one query window are 1..MaxTime

-----------------------------------------------------------------------------
(* Optional values *)

None == <<>>
Some(v) == <<v>>
IsNone(o) == o = <<>>
Get(o) == o[1]

-----------------------------------------------------------------------------
(* Characters and strings *)

Ord(c) ==
    CASE c = "A" -> 65 [] c = "B" -> 66 [] c = "C" -> 67
      [] c = "_" -> 95
      [] c = "a" -> 97 [] c = "b" -> 98 [] c = "c" -> 99

LowerChar(c) ==
    CASE c = "A" -> "a" [] c = "B" -> "b" [] c = "C" -> "c" [] OTHER -> c

\* str.lower()
Lower(s) == [i \in 1..Len(s) |-> LowerChar(s[i])]

\* Python's str "<": lexicographic by code point, a proper prefix is smaller
RECURSIVE StrLess(_, _)
StrLess(s, t) ==
    IF t = <<>> THEN FALSE
    ELSE IF s = <<>> THEN TRUE
    ELSE IF Ord(s[1]) < Ord(t[1]) THEN TRUE
    ELSE IF Ord(s[1]) > Ord(t[1]) THEN FALSE
    ELSE StrLess(Tail(s), Tail(t))

\* telegram.helpers.escape_markdown(text, version=2): a backslash before
\* every markup-significant character (square brackets, braces, backquote
\* and backslash are special too; no modelled string holds one).  A fragment
\* longer than one character stands for text without special characters.
IsSpecial(c) == c \in {"_", "*", "(", ")", "~", ">", "#", "+", "-", "=", "|", ".", "!"}

RECURSIVE escape_markdown(_)
escape_markdown(s) ==
    IF s = <<>> THEN <<>>
    ELSE (IF IsSpecial(s[1]) THEN <<"\\", s[1]>> ELSE <<s[1]>>)
         \o escape_markdown(Tail(s))

NamePool == << <<"B">>, <<"b">>, <<"a", "_">>, <<"C">>, <<"A", "c">> >>
Names == {NamePool[i] : i \in 1..(IF NumNames < Len(NamePool) THEN NumNames ELSE Len(NamePool))}

-----------------------------------------------------------------------------
(* influx.NodePoint and reducer.NodeStatus *)

NodePoint(alive, latency_ms, alive_time, latency_time, protocol) ==
    [alive |-> alive, latency_ms |-> latency_ms, alive_time |-> alive_time,
     latency_time |-> latency_time, protocol |-> protocol]

NodeStatus(name, up, degraded, latency_ms, reason, protocol) ==
    [name |-> name, up |-> up, degraded |-> degraded, latency_ms |-> latency_ms,
     reason |-> reason, protocol |-> protocol]

NoHeartbeat == "no recent heartbeat"

\* variant: degraded already at the threshold
IsDegraded_AtThreshold(node, latency_warn_ms) ==
    IF ~IsNone(latency_warn_ms)
    THEN ~IsNone(node.latency_ms) /\ Get(node.latency_ms) >= Get(latency_warn_ms)
    ELSE FALSE

\* reduce_status, lines 55-57: degraded only above a configured threshold
IsDegraded(node, latency_warn_ms) ==
    IF ~IsNone(latency_warn_ms)
    THEN ~IsNone(node.latency_ms) /\ Get(node.latency_ms) > Get(latency_warn_ms)
    ELSE FALSE

\* variant: a down node never gets a reason
DownReason_Never(alive) == None

\* variant: every down node gets the reason
DownReason_Always(alive) == Some(NoHeartbeat)

\* reduce_status, line 68
DownReason(alive) == IF IsNone(alive) THEN Some(NoHeartbeat) ELSE None

\* reduce_status, lines 41-51: the status of a node with no sample at all
NoDataStatus(name, node) ==
    NodeStatus(name, FALSE, FALSE, None, Some(NoHeartbeat), node.protocol)

\* reduce_status, lines 58-65
UpStatus(name, node, latency_warn_ms) ==
    NodeStatus(name, TRUE, IsDegraded(node, latency_warn_ms), node.latency_ms,
               None, node.protocol)

\* variant: a down node keeps the latency of its window
DownStatus_KeepLatency(name, node) ==
    NodeStatus(name, FALSE, FALSE, node.latency_ms, DownReason(node.alive), node.protocol)

\* reduce_status, lines 66-76
DownStatus(name, node) ==
    NodeStatus(name, FALSE, FALSE, None, DownReason(node.alive), node.protocol)

\* the body of reduce_status's loop
ReduceNode(name, node, latency_warn_ms) ==
    LET has_any == ~IsNone(node.alive_time) \/ ~IsNone(node.latency_time) IN
    IF ~has_any THEN NoDataStatus(name, node)
    ELSE IF node.alive = Some(TRUE) THEN UpStatus(name, node, latency_warn_ms)
    ELSE DownStatus(name, node)

\* A dict is the sequence of its entries in insertion order, keys distinct.
\* data: <<[name, node], ...>>; the result: <<NodeStatus, ...>> in data's order.
reduce_status(data, latency_warn_ms) ==
    [i \in 1..Len(data) |-> ReduceNode(data[i].name, data[i].node, latency_warn_ms)]

-----------------------------------------------------------------------------
(* format_markdown_v2 *)

Minutes == 5
StatusTitle == "Network Status"

GlyphUp == "U+2705"
GlyphDegraded == "U+26A0"
GlyphDown == "U+274C"
EmDash == "U+2014"

\* variant: case-sensitive sort key
key_CaseSensitive(ns) == ns.name

\* def key(ns)
key(ns) == Lower(ns.name)

\* list.sort(key=...) / sorted(..., key=...) on <<[k, v], ...>>: stable,
\* ascending by "<" on the keys.  InsertPair puts x behind every element whose
\* key is not greater than x's.
InsertPair(s, x) ==
    LET later == {i \in 1..Len(s) : StrLess(x.k, s[i].k)}
        p == IF later = {} THEN Len(s) + 1
             ELSE CHOOSE i \in later : \A j \in later : i <= j
    IN SubSeq(s, 1, p - 1) \o <<x>> \o SubSeq(s, p, Len(s))

RECURSIVE SortPairs(_)
SortPairs(s) ==
    IF s = <<>> THEN <<>>
    ELSE InsertPair(SortPairs(SubSeq(s, 1, Len(s) - 1)), s[Len(s)])

\* s sorted by its elements' keys, ks[i] being the key of s[i]
SortedBy(s, ks) ==
    LET sorted == SortPairs([i \in 1..Len(s) |-> [k |-> ks[i], v |-> s[i]]])
    IN [i \in 1..Len(s) |-> sorted[i].v]

\* ups.sort(key=key)
SortStatuses(s) == SortedBy(s, [i \in 1..Len(s) |-> key(s[i])])

IsUpBucket(ns) == ns.up /\ ~ns.degraded
IsDegBucket(ns) == ns.up /\ ns.degraded
IsDownBucket(ns) == ~(ns.up /\ ~ns.degraded) /\ ~(ns.up /\ ns.degraded)

\* lines 92-108 and the iteration order of line 144
DisplayOrder(statuses) ==
    SortStatuses(SelectSeq(statuses, IsUpBucket))
    \o SortStatuses(SelectSeq(statuses, IsDegBucket))
    \o SortStatuses(SelectSeq(statuses, IsDownBucket))

\* def fmt(ns): one line as a sequence of fragments
fmt(ns, show_protocol) ==
    LET emoji == IF ns.up THEN (IF ns.degraded THEN GlyphDegraded ELSE GlyphUp)
                 ELSE GlyphDown
        name == escape_markdown(ns.name)
        proto == IF show_protocol /\ ~IsNone(ns.protocol) /\ Get(ns.protocol) # <<>>
                 THEN <<" \\(">> \o escape_markdown(Get(ns.protocol)) \o <<"\\)">>
                 ELSE <<>>
        tail == IF ns.up
                THEN (IF ~IsNone(ns.latency_ms)
                      THEN <<" ", EmDash, " ", ToString(Get(ns.latency_ms)), " ms">>
                      ELSE <<>>)
                ELSE (IF ~IsNone(ns.reason)
                      THEN <<" ", EmDash, " ", Get(ns.reason)>>
                      ELSE <<>>)
    IN <<emoji, " ">> \o name \o proto \o escape_markdown(tail)

\* now.strftime("%Y-%m-%d %H:%M:%SZ"): the clock counts half-seconds from
\* 2025-01-01 00:00:00 UTC and the format keeps whole seconds
TwoDigits(n) == <<ToString((n \div 10) % 10), ToString(n % 10)>>
HourOf(now) == ((now \div 2) \div 3600) % 24
MinuteOf(now) == ((now \div 2) \div 60) % 60
SecondOf(now) == (now \div 2) % 60

\* variant: the clock reading is rendered to the minute
strftime_NoSeconds(now) ==
    <<"2025", "-", "01", "-", "01", " ">>
    \o TwoDigits(HourOf(now)) \o <<":">> \o TwoDigits(MinuteOf(now)) \o <<"Z">>

strftime(now) ==
    <<"2025", "-", "01", "-", "01", " ">>
    \o TwoDigits(HourOf(now)) \o <<":">> \o TwoDigits(MinuteOf(now)) \o <<":">>
    \o TwoDigits(SecondOf(now)) \o <<"Z">>

\* "\n".join(lines)
RECURSIVE Join(_)
Join(lines) ==
    IF lines = <<>> THEN <<>>
    ELSE IF Len(lines) = 1 THEN lines[1]
    ELSE lines[1] \o <<"\n">> \o Join(Tail(lines))

format_markdown_v2(statuses, show_protocol, now) ==
    LET order == DisplayOrder(statuses)
        safe_title == escape_markdown(
            <<StatusTitle, " ", "(", "last ", ToString(Minutes), "m", ")">>)
        upd == escape_markdown(<<"Updated: ">> \o strftime(now))
        head == << <<"*">> \o safe_title \o <<"*">>, <<>> >>
        body == [i \in 1..Len(order) |-> fmt(order[i], show_protocol)]
        foot == << <<>>, <<"_">> \o upd \o <<"_">> >>
    IN Join(head \o body \o foot)

-----------------------------------------------------------------------------
(* Inputs of the pure pipeline: reduce_status, then format_markdown_v2 *)

\* A sample carries its timestamp, so a metric's value and time are absent
\* together; an unparseable latency leaves latency_ms None with its time set
\* (influx.py lines 92-97).
AliveParts == {<<None, None>>} \cup {<<Some(b), Some(1)>> : b \in BOOLEAN}
LatencyParts == {<<None, None>>, <<None, Some(1)>>}
                \cup {<<Some(l), Some(1)>> : l \in 0..MaxLatency}
Protocols == {None, Some(<<"s", "s">>)}

ReducePoints ==
    {NodePoint(a[1], l[1], a[2], l[2], p) :
        a \in AliveParts, l \in LatencyParts, p \in Protocols}

\* the windows handed to the formatter's pipeline: one of every status kind
FormatPoints ==
    {n \in ReducePoints :
        /\ IsNone(n.protocol)
        /\ IF n.alive = Some(TRUE)
           THEN n.latency_ms \in {Some(0), Some(MaxLatency)}
           ELSE IsNone(n.latency_time)}

Thresholds == {None, Some(1)}

KeysOf(d) == {d[i].name : i \in 1..Len(d)}

RECURSIVE DictsOfLen(_, _)
DictsOfLen(points, n) ==
    IF n = 0 THEN {<<>>}
    ELSE {Append(d, [name |-> nm, node |-> pt]) :
            d \in DictsOfLen(points, n - 1), nm \in Names, pt \in points}

Dicts(points, maxn) ==
    {d \in UNION {DictsOfLen(points, n) : n \in 0..maxn} :
        Cardinality(KeysOf(d)) = Len(d)}

ProcQuiet ==
    /\ cfg = <<>>
    /\ state = <<>>
    /\ disk = <<>>
    /\ pc = "off"
    /\ cyc = <<>>
    /\ hist = <<>>

InitReduce ==
    /\ in_data \in Dicts(ReducePoints, MaxReduceNodes)
    /\ in_cfg \in [latency_warn_ms : Thresholds, show_protocol : {TRUE}, now : {0}]

InitFormat ==
    /\ in_data \in Dicts(FormatPoints, Cardinality(Names))
    /\ in_cfg \in [latency_warn_ms : {Some(1)}, show_protocol : BOOLEAN,
                   now : {MaxNow}]

InitPure ==
    /\ InitReduce \/ InitFormat
    /\ out_statuses = <<>>
    /\ out_text = <<>>
    /\ rpc = "start"
    /\ ProcQuiet

DoReduce ==
    /\ rpc = "start"
    /\ out_statuses' = reduce_status(in_data, in_cfg.latency_warn_ms)
    /\ rpc' = "reduced"
    /\ UNCHANGED <<in_data, in_cfg, out_text, procVars>>

DoFormat ==
    /\ rpc = "reduced"
    /\ out_text' = format_markdown_v2(out_statuses, in_cfg.show_protocol, in_cfg.now)
    /\ rpc' = "formatted"
    /\ UNCHANGED <<in_data, in_cfg, out_statuses, procVars>>

NextPure == DoReduce \/ DoFormat

SpecPure == InitPure /\ [][NextPure]_vars

-----------------------------------------------------------------------------
(* Status Classifier *)

Reduced == rpc # "start"

\* C7: a window with no liveness sample (no sample at all, or latency only)
\* is classified DOWN, not degraded, without latency, reason "no recent heartbeat".
C7_NoLivenessIsDown ==
    Reduced =>
        \A i \in 1..Len(in_data) :
            IsNone(in_data[i].node.alive) =>
                /\ out_statuses[i].name = in_data[i].name
                /\ ~out_statuses[i].up
                /\ ~out_statuses[i].degraded
                /\ out_statuses[i].latency_ms = None
                /\ out_statuses[i].reason = Some("no recent heartbeat")

C7_Witness ==
    /\ Reduced
    /\ \E i \in 1..Len(in_data) :
        /\ IsNone(in_data[i].node.alive)
        /\ ~IsNone(in_data[i].node.latency_ms)
        /\ out_statuses[i].reason = Some("no recent heartbeat")

\* C8: a window whose liveness sample is true is classified UP with the latency
\* carried through; degraded iff a threshold T is configured, a latency L is
\* present and L > T.
C8_LivenessTrueIsUp ==
    Reduced =>
        \A i \in 1..Len(in_data) :
            LET n == in_data[i].node
                T == in_cfg.latency_warn_ms
            IN n.alive = Some(TRUE) =>
                /\ out_statuses[i].up
                /\ out_statuses[i].latency_ms = n.latency_ms
                /\ out_statuses[i].degraded <=>
                     (T # None /\ n.latency_ms # None /\ n.latency_ms[1] > T[1])

C8_Witness ==
    /\ Reduced
    /\ \E i \in 1..Len(in_data) :
        /\ in_data[i].node.alive = Some(TRUE)
        /\ in_cfg.latency_warn_ms # None
        /\ in_data[i].node.latency_ms = in_cfg.latency_warn_ms
        /\ out_statuses[i].up /\ ~out_statuses[i].degraded

\* C9: a window whose liveness sample is false is classified DOWN with reason
\* unset, whatever the latency sample and the threshold.
C9_ExplicitDown ==
    Reduced =>
        \A i \in 1..Len(in_data) :
            in_data[i].node.alive = Some(FALSE) =>
                /\ ~out_statuses[i].up
                /\ ~out_statuses[i].degraded
                /\ out_statuses[i].reason = None

C9_Witness ==
    /\ Reduced
    /\ \E i \in 1..Len(in_data) :
        /\ in_data[i].node.alive = Some(FALSE)
        /\ in_cfg.latency_warn_ms # None
        /\ in_data[i].node.latency_ms # None
        /\ in_data[i].node.latency_ms[1] > in_cfg.latency_warn_ms[1]
        /\ out_statuses[i].reason = None

-----------------------------------------------------------------------------
(* Report Renderer: compact list *)

Formatted == rpc = "formatted"

\* text.split("\n"): the lines of a rendered text
RECURSIVE SplitLines(_)
SplitLines(text) ==
    LET breaks == {i \in 1..Len(text) : text[i] = "\n"} IN
    IF breaks = {} THEN <<text>>
    ELSE LET b == CHOOSE i \in breaks : \A j \in breaks : i <= j
         IN <<SubSeq(text, 1, b - 1)>> \o SplitLines(SubSeq(text, b + 1, Len(text)))

BucketRank(ns) == IF ns.up /\ ~ns.degraded THEN 1 ELSE IF ns.up THEN 2 ELSE 3

\* the node lines of the compact list: everything between the two header
\* lines and the two footer lines
NodeLines(text) == LET ls == SplitLines(text) IN SubSeq(ls, 3, Len(ls) - 2)

\* p lists every index of 1..n exactly once
IsPermutation(p, n) == \A k \in 1..n : \E i \in 1..n : p[i] = k

\* C10: the compact list shows every node of the snapshot exactly once, UP
\* nodes first, then DEGRADED, then DOWN, and within a bucket in ascending
\* case-insensitive name order.
C10_CompactListOrdering ==
    Formatted =>
        LET n == Len(out_statuses)
            ls == NodeLines(out_text)
        IN /\ Len(ls) = n
           /\ \E p \in [1..n -> 1..n] :
                /\ IsPermutation(p, n)
                /\ \A i \in 1..n :
                     ls[i] = fmt(out_statuses[p[i]], in_cfg.show_protocol)
                /\ \A i, j \in 1..n :
                     i < j =>
                        LET a == out_statuses[p[i]]
                            b == out_statuses[p[j]]
                        IN /\ BucketRank(a) <= BucketRank(b)
                           /\ BucketRank(a) = BucketRank(b) =>
                                ~StrLess(Lower(b.name), Lower(a.name))

\* the test's case: an UP node, a DEGRADED node and a DOWN node whose name sorts
\* first, rendered UP, DEGRADED, DOWN
C10_Witness ==
    /\ Formatted
    /\ Len(out_statuses) = 3
    /\ \E u, g, d \in 1..3 :
        /\ BucketRank(out_statuses[u]) = 1
        /\ BucketRank(out_statuses[g]) = 2
        /\ BucketRank(out_statuses[d]) = 3
        /\ StrLess(Lower(out_statuses[d].name), Lower(out_statuses[u].name))
        /\ StrLess(out_statuses[u].name, out_statuses[d].name)
        /\ NodeLines(out_text)[1] = fmt(out_statuses[u], in_cfg.show_protocol)
        /\ NodeLines(out_text)[2] = fmt(out_statuses[g], in_cfg.show_protocol)
        /\ NodeLines(out_text)[3] = fmt(out_statuses[d], in_cfg.show_protocol)

-----------------------------------------------------------------------------
(* payload_hash, format_board_zh *)

\* hashlib.sha256(text).hexdigest(): a digest that the text determines and,
\* SHA-256 being collision resistant, that determines the text
payload_hash(text) == <<"sha256:">> \o text

\* _format_cn_datetime: y/m/d, meridian marker, 12-hour clock
format_cn_datetime(now) ==
    LET hour24 == HourOf(now)
        am == hour24 < 12
        h12 == hour24 % 12
        hour12 == IF h12 = 0 THEN 12 ELSE h12
        meridian == IF am THEN "U+4E0A U+5348" ELSE "U+4E0B U+5348"
    IN <<"2025", "/", "1", "/", "1", " ", meridian>>
       \o TwoDigits(hour12) \o <<":">> \o TwoDigits(MinuteOf(now)) \o <<":">>
       \o TwoDigits(SecondOf(now))

lower_name(n) == Lower(n)

\* one section of the board: the sorted alert names, or the "none" marker
BoardSection(alerts) ==
    IF alerts # <<>>
    THEN LET sorted == SortedBy(alerts, [i \in 1..Len(alerts) |-> lower_name(alerts[i])])
         IN [i \in 1..Len(sorted) |-> <<GlyphDown, " ">> \o escape_markdown(sorted[i])]
    ELSE << <<"<none>">> >>

format_board_zh(now, domestic_alerts, foreign_alerts) ==
    Join(<< <<"<board title>">>,
            escape_markdown(<<"<updated>: ">> \o format_cn_datetime(now)),
            <<>>,
            <<"<domestic alerts>:">> >>
         \o BoardSection(domestic_alerts)
         \o << <<>>, <<"<foreign alerts>:">> >>
         \o BoardSection(foreign_alerts)
         \o << <<"<how to read>">> >>)

-----------------------------------------------------------------------------
(* fetch_probe_window: the fold over the records of one query *)

\* One record of the stream: name (None when the tag is missing), field,
\* value (a boolean for "alive"; for "delay_ms" Some(n), or None when int()
\* rejects it), time t, protocol.
Record(name, field, value, t, protocol) ==
    [name |-> name, field |-> field, value |-> value, t |-> t, protocol |-> protocol]

IndexOf(result, name) ==
    LET at == {i \in 1..Len(result) : result[i].name = name}
    IN IF at = {} THEN 0 ELSE CHOOSE i \in at : TRUE

\* lines 80-83 and 88-90: is the sample newer than the one retained
IsNewer(t, kept) == IsNone(kept) \/ (~IsNone(t) /\ Get(t) > Get(kept))

\* lines 80-98: fold one sample into its node
FoldNode(node, r) ==
    LET withProto(n) == IF ~IsNone(r.protocol) THEN [n EXCEPT !.protocol = r.protocol]
                        ELSE n
    IN IF r.field = "alive"
       THEN IF IsNewer(r.t, node.alive_time)
            THEN withProto([node EXCEPT !.alive = Some(r.value), !.alive_time = r.t])
            ELSE node
       ELSE IF r.field = "delay_ms"
       THEN IF IsNewer(r.t, node.latency_time)
            THEN withProto([node EXCEPT !.latency_ms = r.value, !.latency_time = r.t])
            ELSE node
       ELSE node

\* lines 66-98: the body of the loop over the stream
FoldRecord(result, r) ==
    IF IsNone(r.name) THEN result
    ELSE LET name == Get(r.name)
             i == IndexOf(result, name)
             fresh == NodePoint(None, None, None, None, r.protocol)
         IN IF i = 0
            THEN Append(result, [name |-> name, node |-> FoldNode(fresh, r)])
            ELSE [result EXCEPT ![i].node = FoldNode(result[i].node, r)]

RECURSIVE fetch_probe_window(_)
fetch_probe_window(stream) ==
    IF stream = <<>> THEN <<>>
    ELSE FoldRecord(fetch_probe_window(SubSeq(stream, 1, Len(stream) - 1)),
                    stream[Len(stream)])

-----------------------------------------------------------------------------
(* state.py: MessageRef and the durable state file *)

MessageRef(chat_id, message_id) == [chat_id |-> chat_id, message_id |-> message_id]

\* A JSON value as json.load sees it: kind "number" or "string" with the
\* characters of the token, "true", "false", "null", "array", or "missing"
\* for a key the object does not have (data.get returns None).
JNum(text) == [kind |-> "number", text |-> text]
JStr(text) == [kind |-> "string", text |-> text]
JLit(kind) == [kind |-> kind, text |-> <<>>]

DigitChars == {"0", "1", "2", "3", "4", "5", "6", "7", "8", "9"}
DigitVal(c) ==
    CASE c = "0" -> 0 [] c = "1" -> 1 [] c = "2" -> 2 [] c = "3" -> 3 [] c = "4" -> 4
      [] c = "5" -> 5 [] c = "6" -> 6 [] c = "7" -> 7 [] c = "8" -> 8 [] c = "9" -> 9

IsDigits(text) == text # <<>> /\ \A i \in 1..Len(text) : text[i] \in DigitChars

RECURSIVE ParseNat(_)
ParseNat(text) ==
    IF text = <<>> THEN 0
    ELSE ParseNat(SubSeq(text, 1, Len(text) - 1)) * 10 + DigitVal(text[Len(text)])

\* a decimal literal with optional sign: [ok, v]
ParseInt(text) ==
    LET signed == text # <<>> /\ text[1] \in {"-", "+"}
        digits == IF signed THEN Tail(text) ELSE text
    IN IF ~IsDigits(digits) THEN [ok |-> FALSE, v |-> 0]
       ELSE [ok |-> TRUE,
             v |-> IF signed /\ text[1] = "-" THEN 0 - ParseNat(digits)
                   ELSE ParseNat(digits)]

\* str(n) of an int, as json.dump writes it
RECURSIVE NatDigits(_)
NatDigits(n) ==
    IF n < 10 THEN <<ToString(n)>>
    ELSE NatDigits(n \div 10) \o <<ToString(n % 10)>>
DecimalOf(n) == IF n < 0 THEN <<"-">> \o NatDigits(0 - n) ELSE NatDigits(n)

\* int(x) of lines 44-45 on a loaded JSON value: [err, v].  A number token
\* with a fraction is a float, which int() truncates toward zero; a str is
\* parsed as a decimal literal; True and False are 1 and 0; None, a list or a
\* dict raise TypeError.
PyInt(jv) ==
    IF jv.kind = "number"
    THEN LET dots == {i \in 1..Len(jv.text) : jv.text[i] = "."}
             whole == IF dots = {} THEN jv.text
                      ELSE SubSeq(jv.text, 1, (CHOOSE i \in dots : TRUE) - 1)
         IN [err |-> "", v |-> ParseInt(whole).v]
    ELSE IF jv.kind = "string"
    THEN IF ParseInt(jv.text).ok THEN [err |-> "", v |-> ParseInt(jv.text).v]
         ELSE [err |-> "ValueError", v |-> 0]
    ELSE IF jv.kind = "true" THEN [err |-> "", v |-> 1]
    ELSE IF jv.kind = "false" THEN [err |-> "", v |-> 0]
    ELSE [err |-> "TypeError", v |-> 0]

\* The file is absent (None) or holds Some([parses, object, chat_id,
\* message_id]): parses is whether json.load accepts the content, object
\* whether the document is a JSON object, the ids the values of its two keys.
FileContent(parses, object, chat_id, message_id) ==
    Some([parses |-> parses, object |-> object, chat_id |-> chat_id,
          message_id |-> message_id])

\* what json.dump writes at line 32
FileOf(ref) ==
    FileContent(TRUE, TRUE, JNum(DecimalOf(ref.chat_id)), JNum(DecimalOf(ref.message_id)))
\* an empty or truncated file
Garbage == FileContent(FALSE, FALSE, JLit("missing"), JLit("missing"))

\* lines 40-46: [err |-> the exception raised, ref |-> the value returned]
read_state(file) ==
    IF IsNone(file) THEN [err |-> "", ref |-> None]
    ELSE LET data == Get(file)
             chat_id == PyInt(data.chat_id)
             message_id == PyInt(data.message_id)
         IN IF ~data.parses THEN [err |-> "JSONDecodeError", ref |-> None]
            ELSE IF ~data.object THEN [err |-> "AttributeError", ref |-> None]
            ELSE IF chat_id.err # "" THEN [err |-> chat_id.err, ref |-> None]
            ELSE IF message_id.err # "" THEN [err |-> message_id.err, ref |-> None]
            ELSE [err |-> "", ref |-> Some(MessageRef(chat_id.v, message_id.v))]

\* variant: except ValueError (which JSONDecodeError is)
LoadCatches_ValueError(e) == e \in {"ValueError", "JSONDecodeError"}

\* line 47: except Exception
LoadCatches(e) == e \in {"JSONDecodeError", "AttributeError", "TypeError", "ValueError"}

\* load_message_ref as its caller sees it: [raised, ref]
load_result(file) ==
    LET r == read_state(file)
    IN [raised |-> r.err # "" /\ ~LoadCatches(r.err), ref |-> r.ref]

load_message_ref(file) == load_result(file).ref

\* save_message_ref: the write succeeds, or open() fails and the file stays as
\* it was, or the dump fails after open("w") truncated the file
SaveOutcomes == {"ok", "open_failed", "dump_failed"}

save_message_ref(file, ref, outcome) ==
    IF outcome = "ok" THEN FileOf(ref)
    ELSE IF outcome = "open_failed" THEN file
    ELSE Garbage

-----------------------------------------------------------------------------
(* Configuration *)

GroupChat == 0 - 100
\* the message tracked before the process started, the message a configured
\* override names; /init_status posts messages 2, 3, ...
OldRef == MessageRef(GroupChat, 1)
OverrideRef == MessageRef(GroupChat, 9)

\* What update_cycle reads from cfg.  has_template tells whether the object
\* carries status_template, domestic_probe_node, foreign_probe_node and
\* include_degraded_as_alert: the Config dataclass of config.py declares none
\* of them, so the object load_config returns has has_template = FALSE.
ConfigOf(has_template, template, foreign, degraded_alert, warn, chat, msg) ==
    [has_template |-> has_template, status_template |-> template,
     foreign_probe_node |-> foreign, include_degraded_as_alert |-> degraded_alert,
     latency_warn_ms |-> warn, show_protocol |-> TRUE,
     telegram_chat_id |-> chat, telegram_message_id |-> msg]

NoOverride == <<None, None>>
ChatOnly == <<Some(OverrideRef.chat_id), None>>
FullOverride == <<Some(OverrideRef.chat_id), Some(OverrideRef.message_id)>>

\* load_config(): Config objects as config.py declares them
LoadedConfigs ==
    {ConfigOf(FALSE, "", None, FALSE, Some(1), o[1], o[2]) :
        o \in {NoOverride, FullOverride}}

\* cfg objects that carry the template attributes update_cycle reads
TemplateConfigs ==
    {ConfigOf(TRUE, "list", None, FALSE, Some(1), o[1], o[2]) :
        o \in {NoOverride, ChatOnly, FullOverride}}
    \cup
    {ConfigOf(TRUE, "board_zh", f, TRUE, Some(1), None, None) :
        f \in {None, Some("foreign")}}

Configs == LoadedConfigs \cup TemplateConfigs

\* telegram_bot.py line 159: both ids truthy
HasOverride(c) ==
    /\ ~IsNone(c.telegram_chat_id) /\ Get(c.telegram_chat_id) # 0
    /\ ~IsNone(c.telegram_message_id) /\ Get(c.telegram_message_id) # 0

-----------------------------------------------------------------------------
(* update_cycle: query, reduce, render *)

Tries == 3

\* The answer of one sample-store query: the stream of its records, or an
\* error raised by the client (Failed).
Failed == [ok |-> FALSE, stream |-> <<>>]
Answer(stream) == [ok |-> TRUE, stream |-> stream]

\* variant: a degraded node alerts whatever the toggle says
is_alert_IgnoreToggle(c, ns) == (~ns.up) \/ ns.degraded

\* def is_alert(ns)
is_alert(c, ns) == (~ns.up) \/ (c.include_degraded_as_alert /\ ns.degraded)

AlertNames(c, statuses) ==
    LET alerting == SelectSeq(statuses, LAMBDA ns : is_alert(c, ns))
    IN [i \in 1..Len(alerting) |-> alerting[i].name]

\* lines 91-155: [err |-> the exception raised, text |-> the rendered text]
Rendered(text) == [err |-> "", text |-> text]
Raised(e) == [err |-> e, text |-> <<>>]

\* variant: the board is rendered without the foreign snapshot when the
\* foreign query fails
Render_PartialBoard(c, now, q1, q2) ==
    IF ~c.has_template THEN Raised("AttributeError")
    ELSE IF c.status_template = "board_zh"
    THEN IF ~q1.ok THEN Raised("QueryError")
         ELSE LET dom_status == reduce_status(fetch_probe_window(q1.stream),
                                              c.latency_warn_ms)
                  for_status == IF ~IsNone(c.foreign_probe_node) /\ q2.ok
                                THEN reduce_status(fetch_probe_window(q2.stream),
                                                   c.latency_warn_ms)
                                ELSE <<>>
              IN Rendered(format_board_zh(now, AlertNames(c, dom_status),
                                          AlertNames(c, for_status)))
    ELSE IF ~q1.ok THEN Raised("QueryError")
    ELSE Rendered(format_markdown_v2(
             reduce_status(fetch_probe_window(q1.stream), c.latency_warn_ms),
             c.show_protocol, now))

Render(c, now, q1, q2) ==
    IF ~c.has_template THEN Raised("AttributeError")
    ELSE IF c.status_template = "board_zh"
    THEN IF ~q1.ok THEN Raised("QueryError")
         ELSE IF ~IsNone(c.foreign_probe_node) /\ ~q2.ok THEN Raised("QueryError")
         ELSE LET dom_status == reduce_status(fetch_probe_window(q1.stream),
                                              c.latency_warn_ms)
                  for_status == IF ~IsNone(c.foreign_probe_node)
                                THEN reduce_status(fetch_probe_window(q2.stream),
                                                   c.latency_warn_ms)
                                ELSE <<>>
              IN Rendered(format_board_zh(now, AlertNames(c, dom_status),
                                          AlertNames(c, for_status)))
    ELSE IF ~q1.ok THEN Raised("QueryError")
    ELSE Rendered(format_markdown_v2(
             reduce_status(fetch_probe_window(q1.stream), c.latency_warn_ms),
             c.show_protocol, now))

\* variant: a configured chat id alone counts as an override
ResolveRef_ChatAlone(c, msg_ref, file) ==
    LET first == IF ~IsNone(c.telegram_chat_id)
                 THEN Some(MessageRef(Get(c.telegram_chat_id),
                                      IF IsNone(c.telegram_message_id) THEN 0
                                      ELSE Get(c.telegram_message_id)))
                 ELSE msg_ref
    IN IF IsNone(first)
       THEN [ref |-> load_message_ref(file), loaded |-> TRUE,
             msg_ref |-> load_message_ref(file)]
       ELSE [ref |-> first, loaded |-> FALSE, msg_ref |-> msg_ref]

\* variant: the in-memory reference wins over the configured override
ResolveRef_MemoryFirst(c, msg_ref, file) ==
    LET first == IF ~IsNone(msg_ref) THEN msg_ref
                 ELSE IF HasOverride(c)
                 THEN Some(MessageRef(Get(c.telegram_chat_id), Get(c.telegram_message_id)))
                 ELSE None
    IN IF IsNone(first)
       THEN [ref |-> load_message_ref(file), loaded |-> TRUE,
             msg_ref |-> load_message_ref(file)]
       ELSE [ref |-> first, loaded |-> FALSE, msg_ref |-> msg_ref]

\* lines 157-167: [ref, loaded (the state file was read), msg_ref (state.msg_ref after)]
ResolveRef(c, msg_ref, file) ==
    LET first == IF HasOverride(c)
                 THEN Some(MessageRef(Get(c.telegram_chat_id), Get(c.telegram_message_id)))
                 ELSE msg_ref
    IN IF IsNone(first)
       THEN [ref |-> load_message_ref(file), loaded |-> TRUE,
             msg_ref |-> load_message_ref(file)]
       ELSE [ref |-> first, loaded |-> FALSE, msg_ref |-> msg_ref]

\* variant: only query errors are caught
Catches_QueryOnly(e) == e = "QueryError"

\* line 202: except Exception
Catches(e) == e \in {"AttributeError", "QueryError"}

\* variant: no suppression
IsUnchanged_Never(last_hash, h) == FALSE

\* line 177: the rendered text is the one last published
IsUnchanged(last_hash, h) == last_hash = Some(h)

\* variant: the fingerprint is not recorded
AfterEditOk_Forget(st, h) == st

\* line 192: a successful edit records the fingerprint
AfterEditOk(st, h) == [st EXCEPT !.last_hash = Some(h)]

\* variant: the fingerprint is recorded although the edit failed
AfterEditFail_Record(st, h) == [st EXCEPT !.last_hash = Some(h)]

\* lines 195-200: a failed edit leaves BotState alone
AfterEditFail(st, h) == st

\* line 196
IsLastAttempt(attempt) == attempt = Tries

\* variant: the same delay after every failure
Backoff_Constant(attempt) == 1

\* line 200: asyncio.sleep(1.0 * attempt)
Backoff(attempt) == attempt

-----------------------------------------------------------------------------
(* The process: main_async, the repeating job, the /init_status handler *)

CycleRecords ==
    {Record(Some(NamePool[1]), "alive", b, Some(1), None) : b \in BOOLEAN}

\* the answers a cycle's query gets: no record, or one record
CycleStreams == {<<>>} \cup {<<r>> : r \in CycleRecords}
Answers == {Failed} \cup {Answer(q) : q \in CycleStreams}

\* the queries a cycle makes: none when reading cfg.status_template fails,
\* a second one for the board with a foreign vantage
FirstAnswers(c) == IF c.has_template THEN Answers ELSE {Failed}
SecondAnswers(c) ==
    IF c.has_template /\ c.status_template = "board_zh" /\ ~IsNone(c.foreign_probe_node)
    THEN Answers ELSE {Failed}

\* the locals of update_cycle; start_hash and init_seen record what the
\* cycle found when it started, repeat that it rendered the text the cycle
\* before it had rendered, q_ok whether the sample store answered the
\* domestic (or only) and the foreign query, err the exception that ended
\* lines 92-155, second the whole second of the clock reading of line 90
NoCycle ==
    [rendered |-> FALSE, text |-> <<>>, h |-> <<>>, repeat |-> FALSE,
     ref |-> None, loaded |-> FALSE,
     attempt |-> 0, edits |-> 0, fails |-> 0, slept |-> 0,
     start_hash |-> None, init_seen |-> None, q_ok |-> <<FALSE, FALSE>>,
     err |-> "", second |-> 0]

\* what is left of a cycle once update_cycle has returned
Finished(c, outcome) ==
    [outcome |-> outcome, rendered |-> c.rendered, text |-> c.text, h |-> c.h,
     repeat |-> c.repeat, ref |-> c.ref, loaded |-> c.loaded,
     edits |-> c.edits, fails |-> c.fails, slept |-> c.slept, q_ok |-> c.q_ok,
     err |-> c.err, second |-> c.second]

PureQuiet ==
    /\ in_data = <<>>
    /\ in_cfg = <<>>
    /\ out_statuses = <<>>
    /\ out_text = <<>>
    /\ rpc = "off"

\* main_async lines 46-49
Init ==
    /\ cfg \in Configs
    /\ disk \in {None, Garbage, FileOf(OldRef)}
    /\ state = [msg_ref |-> load_message_ref(disk), last_hash |-> None]
    /\ pc = "idle"
    /\ cyc = NoCycle
    /\ hist = [last |-> Finished(NoCycle, "none"), escaped |-> FALSE,
               init_ref |-> None, next_id |-> 2, inits |-> 0,
               published |-> None, pub_second |-> None]
    /\ PureQuiet

\* update_cycle from its start to its first await: the whole cycle when it
\* fails, finds no reference or nothing changed, else up to the first call of
\* edit_message_text
Tick(now, q1, q2) ==
    /\ pc = "idle"
    /\ LET r == Render(cfg, now, q1, q2)
           c0 == [NoCycle EXCEPT !.start_hash = state.last_hash,
                                 !.init_seen = hist.init_ref,
                                 !.q_ok = <<q1.ok, q2.ok>>]
       IN
       IF r.err # ""
       THEN /\ hist' = [hist EXCEPT !.last = Finished([c0 EXCEPT !.err = r.err], "error"),
                                    !.escaped = @ \/ ~Catches(r.err)]
            /\ UNCHANGED <<state, pc, cyc>>
       ELSE LET h == payload_hash(r.text)
                res == ResolveRef(cfg, state.msg_ref, disk)
                c1 == [c0 EXCEPT !.rendered = TRUE, !.text = r.text, !.h = h,
                                 !.repeat = hist.last.rendered /\ hist.last.h = h,
                                 !.ref = res.ref, !.loaded = res.loaded,
                                 !.second = now \div 2]
            IN /\ state' = [state EXCEPT !.msg_ref = res.msg_ref]
               /\ IF IsNone(res.ref)
                  THEN /\ hist' = [hist EXCEPT !.last = Finished(c1, "noref")]
                       /\ UNCHANGED <<pc, cyc>>
                  ELSE IF IsUnchanged(state.last_hash, h)
                  THEN /\ hist' = [hist EXCEPT !.last = Finished(c1, "nochange")]
                       /\ UNCHANGED <<pc, cyc>>
                  ELSE /\ cyc' = [c1 EXCEPT !.attempt = 1, !.edits = 1]
                       /\ pc' = "edit"
                       /\ hist' = [hist EXCEPT !.last = Finished(c1, "running")]
    /\ UNCHANGED <<cfg, disk, pureVars>>

\* edit_message_text returns: lines 192-194
EditOk ==
    /\ pc = "edit"
    /\ state' = AfterEditOk(state, cyc.h)
    /\ hist' = [hist EXCEPT !.last = Finished(cyc, "edited"),
                            !.published = Some(cyc.text),
                            !.pub_second = Some(cyc.second)]
    /\ cyc' = NoCycle
    /\ pc' = "idle"
    /\ UNCHANGED <<cfg, disk, pureVars>>

\* edit_message_text raises: lines 195-200
EditFail ==
    /\ pc = "edit"
    /\ state' = AfterEditFail(state, cyc.h)
    /\ LET c1 == [cyc EXCEPT !.fails = @ + 1] IN
       IF IsLastAttempt(cyc.attempt)
       THEN /\ hist' = [hist EXCEPT !.last = Finished(c1, "exhausted")]
            /\ cyc' = NoCycle
            /\ pc' = "idle"
       ELSE /\ cyc' = [c1 EXCEPT !.slept = @ + Backoff(cyc.attempt)]
            /\ pc' = "sleep"
            /\ UNCHANGED hist
    /\ UNCHANGED <<cfg, disk, pureVars>>

\* the backoff sleep ends: the next round of the loop calls edit_message_text
Wake ==
    /\ pc = "sleep"
    /\ cyc' = [cyc EXCEPT !.attempt = @ + 1, !.edits = @ + 1]
    /\ pc' = "edit"
    /\ UNCHANGED <<cfg, state, disk, hist, pureVars>>

\* the /init_status handler; it runs on the event loop between the awaits of
\* a cycle.  kind: no chat or user in the update, a private chat, send_message
\* raises, or the message is posted.
InitKinds == {"no_chat", "private", "send_failed", "sent"}

init_status(kind, save) ==
    /\ hist.inits < MaxInits
    /\ IF kind = "sent"
       THEN LET ref == MessageRef(GroupChat, hist.next_id) IN
            /\ disk' = save_message_ref(disk, ref, save)
            /\ hist' = [hist EXCEPT !.init_ref = Some(ref), !.next_id = @ + 1,
                                    !.inits = @ + 1]
       ELSE /\ save = "ok"
            /\ hist' = [hist EXCEPT !.inits = @ + 1]
            /\ UNCHANGED disk
    /\ UNCHANGED <<cfg, state, pc, cyc, pureVars>>

Next ==
    \/ \E now \in 0..MaxNow, q1 \in FirstAnswers(cfg), q2 \in SecondAnswers(cfg) :
            Tick(now, q1, q2)
    \/ EditOk
    \/ EditFail
    \/ Wake
    \/ \E kind \in InitKinds, save \in SaveOutcomes : init_status(kind, save)

Spec == Init /\ [][Next]_vars

-----------------------------------------------------------------------------
(* Change Detector and Publisher *)

\* a step in which a cycle starts and calls edit_message_text
CycleEdits == pc = "idle" /\ pc' = "edit"

\* a step in which a cycle starts and gets as far as resolving the reference
CycleResolves == pc = "idle" /\ hist'.inits = hist.inits /\ hist'.last.rendered

\* C1 as stated: of two consecutive cycles that render identical text, the
\* second never calls the edit primitive.
C1_RepeatNeverEdits == ~(pc # "idle" /\ cyc.repeat)

\* C1: of two consecutive cycles that render identical text, the first of which
\* published it (its edit succeeded, or it was itself suppressed as
\* unchanged), the second never calls the edit primitive.
C1_ChangeSuppression ==
    [][CycleEdits =>
        ~(/\ hist.last.outcome \in {"edited", "nochange"}
          /\ hist.last.rendered
          /\ cyc'.h = hist.last.h)]_vars

C1_Witness ==
    /\ pc = "idle"
    /\ hist.last.outcome = "nochange"
    /\ hist.last.repeat
    /\ hist.last.edits = 0

\* C2: a cycle whose edit fails k-1 times and then succeeds makes exactly k
\* attempts, k <= 3, ends normally, and last_hash is the fingerprint of the
\* text it rendered.
C2_RetrySuccess ==
    hist.last.outcome = "edited" =>
        /\ pc = "idle"
        /\ hist.last.edits = hist.last.fails + 1
        /\ hist.last.edits \in 1..3
        /\ state.last_hash = Some(payload_hash(hist.last.text))

C2_Witness ==
    /\ hist.last.outcome = "edited"
    /\ hist.last.fails = 2
    /\ hist.last.edits = 3
    /\ state.last_hash = Some(hist.last.h)

\* C3: a cycle all of whose edits fail makes exactly 3 attempts, leaves
\* last_hash as it was before the cycle and returns without raising.
C3_RetryExhaustion ==
    [][(pc = "edit" /\ hist'.last.outcome = "exhausted") =>
        /\ pc' = "idle"
        /\ hist'.last.edits = 3
        /\ hist'.last.fails = 3
        /\ state'.last_hash = cyc.start_hash
        /\ ~hist'.escaped]_vars

C3_Witness ==
    /\ pc = "idle"
    /\ hist.last.outcome = "exhausted"
    /\ hist.last.edits = 3
    /\ state.last_hash # None
    /\ state.last_hash # Some(hist.last.h)

\* C4: no failure of a cycle leaves update_cycle; a cycle that has ended, in
\* whatever way, leaves the scheduler idle for the next tick.
C4_CycleIsolation ==
    /\ ~hist.escaped
    /\ hist.last.outcome \in {"error", "noref", "nochange", "edited", "exhausted"}
         => pc = "idle" /\ cyc = NoCycle
    /\ pc = "idle" => ENABLED (\E now \in 0..MaxNow, q1 \in FirstAnswers(cfg),
                                  q2 \in SecondAnswers(cfg) : Tick(now, q1, q2))

C4_Witness ==
    /\ hist.last.outcome = "error"
    /\ pc = "idle"
    /\ ~hist.escaped

\* C5 as stated: once /init_status has posted a message, every edit of a cycle
\* started later goes to that message when no override is configured.
C5_EditsGoToNewMessage ==
    (pc = "edit" /\ cyc.init_seen # None /\ ~HasOverride(cfg))
        => cyc.ref = cyc.init_seen

\* C6: a cycle edits the configured override if there is one, else the
\* in-memory reference if there is one, else what the state file holds; it
\* reads the state file only when both others are empty.
C6_RefPrecedence ==
    [][CycleResolves =>
        LET configured == cfg.telegram_chat_id # None /\ cfg.telegram_message_id # None
            expected ==
                IF configured
                THEN Some([chat_id |-> cfg.telegram_chat_id[1],
                           message_id |-> cfg.telegram_message_id[1]])
                ELSE IF state.msg_ref # None THEN state.msg_ref
                ELSE load_message_ref(disk)
        IN /\ hist'.last.ref = expected
           /\ hist'.last.loaded <=> (~configured /\ state.msg_ref = None)]_vars

C6_Witness ==
    /\ hist.last.rendered
    /\ hist.last.loaded
    /\ hist.last.ref # None
    /\ hist.last.outcome = "edited"

-----------------------------------------------------------------------------
(* update_cycle, lines 92-135: the regional board, statement by statement *)

\* the samples the two vantage queries return: liveness of either value, and
\* a latency above the warning threshold of BoardConfigs
BoardRecords ==
    {Record(Some(n), "alive", b, Some(1), None) : n \in Names, b \in BOOLEAN}
    \cup {Record(Some(n), "delay_ms", Some(MaxLatency), Some(1), None) : n \in Names}

LocalStreams ==
    UNION {[1..n -> BoardRecords] : n \in 0..3}

RemoteStreams ==
    {<<>>} \cup {<<Record(Some(NamePool[1]), "alive", b, Some(1), None)>> : b \in BOOLEAN}

BoardConfigs ==
    {ConfigOf(TRUE, "board_zh", f, d, Some(1), None, None) :
        f \in {None, Some("foreign")}, d \in BOOLEAN}

InitBoard ==
    /\ in_cfg \in [c : BoardConfigs, now : {MaxNow}]
    /\ in_data \in [q1 : {Failed} \cup {Answer(q) : q \in LocalStreams},
                    q2 : {Failed} \cup {Answer(q) : q \in RemoteStreams}]
    /\ IsNone(in_cfg.c.foreign_probe_node) => in_data.q2 = Failed
    /\ out_statuses = [dom |-> <<>>, for |-> <<>>]
    /\ out_text = <<>>
    /\ rpc = "board_start"
    /\ ProcQuiet

\* lines 94-106: the domestic vantage; a failed query raises
BoardDomestic ==
    /\ rpc = "board_start"
    /\ IF ~in_data.q1.ok
       THEN /\ rpc' = "board_error"
            /\ UNCHANGED out_statuses
       ELSE /\ out_statuses' =
                 [out_statuses EXCEPT !.dom =
                     reduce_status(fetch_probe_window(in_data.q1.stream),
                                   in_cfg.c.latency_warn_ms)]
            /\ rpc' = "board_dom"
    /\ UNCHANGED <<in_data, in_cfg, out_text, procVars>>

\* lines 108-123: the foreign vantage, queried only when configured
BoardForeign ==
    /\ rpc = "board_dom"
    /\ IF ~IsNone(in_cfg.c.foreign_probe_node)
       THEN IF ~in_data.q2.ok
            THEN /\ rpc' = "board_error"
                 /\ UNCHANGED out_statuses
            ELSE /\ out_statuses' =
                      [out_statuses EXCEPT !.for =
                          reduce_status(fetch_probe_window(in_data.q2.stream),
                                        in_cfg.c.latency_warn_ms)]
                 /\ rpc' = "board_for"
       ELSE /\ out_statuses' = [out_statuses EXCEPT !.for = <<>>]
            /\ rpc' = "board_for"
    /\ UNCHANGED <<in_data, in_cfg, out_text, procVars>>

\* lines 125-135
BoardRender ==
    /\ rpc = "board_for"
    /\ out_text' = format_board_zh(in_cfg.now,
                                   AlertNames(in_cfg.c, out_statuses.dom),
                                   AlertNames(in_cfg.c, out_statuses.for))
    /\ rpc' = "board_done"
    /\ UNCHANGED <<in_data, in_cfg, out_statuses, procVars>>

NextBoard == BoardDomestic \/ BoardForeign \/ BoardRender

SpecBoard == InitBoard /\ [][NextBoard]_vars

-----------------------------------------------------------------------------
(* Report Renderer: regional board *)

BoardDone == rpc = "board_done"

\* the lines of the two sections of a rendered board: what stands between
\* the section's heading and the empty line or footer that ends it
ForeignHeading(ls) == CHOOSE i \in 1..Len(ls) : ls[i] = <<"<foreign alerts>:">>
DomesticLines(text) ==
    LET ls == SplitLines(text) IN SubSeq(ls, 5, ForeignHeading(ls) - 2)
ForeignLines(text) ==
    LET ls == SplitLines(text) IN SubSeq(ls, ForeignHeading(ls) + 1, Len(ls) - 1)

\* the line a section shows for an alerting node
AlertLine(n) == <<"U+274C", " ">> \o escape_markdown(n)
Listed(n, lines) == \E i \in 1..Len(lines) : lines[i] = AlertLine(n)

HasData(stream, n) == \E i \in 1..Len(stream) : stream[i].name = Some(n)

\* C11 as stated: in a board cycle a probed node with no data in a vantage's
\* window is listed as an alert in that vantage's section, so a node with no
\* data in either vantage is listed in both.
C11_MissingDataIsAlert ==
    BoardDone =>
        \A n \in Names :
            /\ ~HasData(in_data.q1.stream, n) => Listed(n, DomesticLines(out_text))
            /\ (in_cfg.c.foreign_probe_node # None /\ ~HasData(in_data.q2.stream, n))
                    => Listed(n, ForeignLines(out_text))

\* the names a section must list, by the claim's rule
Alerting(statuses, toggle) ==
    {statuses[i].name : i \in {j \in 1..Len(statuses) :
        (~statuses[j].up) \/ (toggle /\ statuses[j].up /\ statuses[j].degraded)}}

\* lines list every name of names exactly once and nothing else, or the
\* "none" marker when there is no name
SectionShows(lines, names) ==
    IF names = {} THEN lines = << <<"<none>">> >>
    ELSE /\ Len(lines) = Cardinality(names)
         /\ \A n \in names : Listed(n, lines)

\* C12: the local section of the board lists exactly the nodes alerting in the
\* local snapshot and the remote section those alerting in the remote one
\* (DOWN, or DEGRADED with the toggle on); an empty section shows "none".
C12_BoardSections ==
    BoardDone =>
        /\ SectionShows(DomesticLines(out_text),
                        Alerting(out_statuses.dom, in_cfg.c.include_degraded_as_alert))
        /\ SectionShows(ForeignLines(out_text),
                        Alerting(out_statuses.for, in_cfg.c.include_degraded_as_alert))

\* toggle off: a degraded node is left out, a down node of the same snapshot
\* is listed, and the remote section, queried and without alerts, shows "none"
C12_Witness ==
    /\ BoardDone
    /\ ~in_cfg.c.include_degraded_as_alert
    /\ in_cfg.c.foreign_probe_node # None
    /\ \E i, j \in 1..Len(out_statuses.dom) :
        /\ out_statuses.dom[i].up /\ out_statuses.dom[i].degraded
        /\ ~Listed(out_statuses.dom[i].name, DomesticLines(out_text))
        /\ ~out_statuses.dom[j].up
        /\ Listed(out_statuses.dom[j].name, DomesticLines(out_text))
    /\ Len(out_statuses.for) = 1
    /\ ForeignLines(out_text) = << <<"<none>">> >>

-----------------------------------------------------------------------------
(* fetch_probe_window, lines 58-110: the loop over the stream, record by record *)

\* The records of one window: two nodes and a record without the name tag;
\* liveness of either value; a latency that int() accepts, or one it rejects.
FetchNames == {Some(NamePool[1]), Some(NamePool[2]), None}
FetchValues ==
    {<<"alive", b>> : b \in BOOLEAN}
    \cup {<<"delay_ms", v>> : v \in {Some(0), Some(MaxLatency), None}}
FetchRecords ==
    {Record(n, fv[1], fv[2], Some(t), None) :
        n \in FetchNames, fv \in FetchValues, t \in 1..MaxTime}
FetchStreams == UNION {[1..n -> FetchRecords] : n \in 0..3}

\* line 58: result = {}
InitFetch ==
    /\ in_data \in FetchStreams
    /\ in_cfg = [pos |-> 0]
    /\ out_statuses = <<>>
    /\ out_text = <<>>
    /\ rpc = "fetching"
    /\ ProcQuiet

\* lines 65-100: one round of the loop
FetchRecord ==
    /\ rpc = "fetching"
    /\ in_cfg.pos < Len(in_data)
    /\ out_statuses' = FoldRecord(out_statuses, in_data[in_cfg.pos + 1])
    /\ in_cfg' = [pos |-> in_cfg.pos + 1]
    /\ UNCHANGED <<in_data, out_text, rpc, procVars>>

\* lines 101-110: the stream is exhausted
FetchReturn ==
    /\ rpc = "fetching"
    /\ in_cfg.pos = Len(in_data)
    /\ rpc' = "fetched"
    /\ UNCHANGED <<in_data, in_cfg, out_statuses, out_text, procVars>>

NextFetch == FetchRecord \/ FetchReturn

SpecFetch == InitFetch /\ [][NextFetch]_vars

-----------------------------------------------------------------------------
(* Window Reducer *)

\* a sample without node name, or whose latency value int() rejects
Malformed(r) == r.name = <<>> \/ (r.field = "delay_ms" /\ r.value = <<>>)
WellFormed(r) == ~Malformed(r)

\* the samples of node n and metric field among the first k records; a
\* malformed record is no sample
SamplesOf(stream, k, n, field) ==
    {i \in 1..k : stream[i].name = Some(n) /\ stream[i].field = field
                  /\ WellFormed(stream[i])}

\* value and time retained for a metric are those of a sample of maximal
\* timestamp among S, or absent when S is empty
RetainsLatest(stream, S, value, time, is_bool) ==
    IF S = {} THEN value = <<>> /\ time = <<>>
    ELSE \E i \in S :
            /\ \A j \in S : stream[j].t[1] <= stream[i].t[1]
            /\ value = (IF is_bool THEN <<stream[i].value>> ELSE stream[i].value)
            /\ time = stream[i].t

LatestWins(result, stream, k) ==
    \A e \in 1..Len(result) :
        LET n == result[e].name
            w == result[e].node
        IN /\ RetainsLatest(stream, SamplesOf(stream, k, n, "alive"),
                            w.alive, w.alive_time, TRUE)
           /\ RetainsLatest(stream, SamplesOf(stream, k, n, "delay_ms"),
                            w.latency_ms, w.latency_time, FALSE)

TimeNotBefore(later, earlier) == earlier = <<>> \/ (later # <<>> /\ later[1] >= earlier[1])

TimesNeverDecrease(before, after) ==
    \A e \in 1..Len(before) :
        \E f \in 1..Len(after) :
            /\ after[f].name = before[e].name
            /\ TimeNotBefore(after[f].node.alive_time, before[e].node.alive_time)
            /\ TimeNotBefore(after[f].node.latency_time, before[e].node.latency_time)

\* C13 as stated: at every point of the fold, each node's retained liveness
\* and latency are, independently, the value and timestamp of a sample of
\* maximal timestamp among the node's samples of that metric seen so far,
\* whatever the arrival order; a retained timestamp never decreases.
C13_LatestWins ==
    [][/\ LatestWins(out_statuses', in_data', in_cfg'.pos)
       /\ TimesNeverDecrease(out_statuses, out_statuses')]_vars

\* C17 as stated: folding a malformed sample changes no node's window, and the
\* window returned is the one the other samples alone would give.
C17_MalformedDropped ==
    [][/\ (in_cfg'.pos = in_cfg.pos + 1 /\ Malformed(in_data[in_cfg'.pos]))
            => out_statuses' = out_statuses
       /\ rpc' = "fetched"
            => out_statuses' = fetch_probe_window(SelectSeq(in_data, WellFormed))]_vars

-----------------------------------------------------------------------------
(* Report Renderer: determinism *)

\* the same mapping built in another insertion order
Reordered(d, p) == [i \in 1..Len(d) |-> d[p[i]]]
Orders(n) == {p \in [1..n -> 1..n] : IsPermutation(p, n)}

\* the board rendered from one snapshot, degraded nodes counted as alerts
BoardOf(statuses, now) ==
    LET c == [include_degraded_as_alert |-> TRUE]
    IN format_board_zh(now, AlertNames(c, statuses), AlertNames(c, statuses))

\* C14 as stated: a snapshot holding the same name -> NodeStatus mapping,
\* built in any other insertion order and rendered with the same config and
\* timestamp, gives the same text, in the compact list and in the board.
C14_RenderDeterminism ==
    Formatted =>
        \A p \in Orders(Len(in_data)) :
            LET other == reduce_status(Reordered(in_data, p), in_cfg.latency_warn_ms)
            IN /\ format_markdown_v2(other, in_cfg.show_protocol, in_cfg.now) = out_text
               /\ BoardOf(other, in_cfg.now) = BoardOf(out_statuses, in_cfg.now)

-----------------------------------------------------------------------------
(* state.py: saving and loading the state file *)

\* values found under "chat_id" and "message_id"
FileValues ==
    {JLit("missing"), JLit("null"), JLit("true"), JLit("array"),
     JNum(<<"7">>), JNum(<<"-", "1", "0", "0">>), JNum(<<"1", ".", "5">>),
     JStr(<<"1", "2">>), JStr(<<"x">>)}

\* no file, a file that is not JSON, a JSON document that is no object, objects
Files ==
    {None, Garbage, FileContent(TRUE, FALSE, JLit("missing"), JLit("missing"))}
    \cup {FileContent(TRUE, TRUE, c, m) : c, m \in FileValues}

SaveRefs == {OldRef, MessageRef(GroupChat, 2), MessageRef(7, 10)}

InitFile ==
    /\ disk \in Files
    /\ in_data \in SaveRefs
    /\ in_cfg = [saved |-> FALSE]
    /\ out_statuses = <<>>
    /\ out_text = <<>>
    /\ rpc = "file_start"
    /\ cfg = <<>>
    /\ state = <<>>
    /\ pc = "off"
    /\ cyc = <<>>
    /\ hist = <<>>

\* save_message_ref(ref)
FileSave(outcome) ==
    /\ rpc = "file_start"
    /\ disk' = save_message_ref(disk, in_data, outcome)
    /\ in_cfg' = [saved |-> outcome = "ok"]
    /\ rpc' = "file_saved"
    /\ UNCHANGED <<cfg, state, pc, cyc, hist, in_data, out_statuses, out_text>>

\* load_message_ref()
FileLoad ==
    /\ rpc \in {"file_start", "file_saved"}
    /\ out_statuses' = load_result(disk)
    /\ rpc' = "file_loaded"
    /\ UNCHANGED <<cfg, state, disk, pc, cyc, hist, in_data, in_cfg, out_text>>

NextFile == (\E outcome \in SaveOutcomes : FileSave(outcome)) \/ FileLoad

SpecFile == InitFile /\ [][NextFile]_vars

-----------------------------------------------------------------------------
(* Durable state file *)

Loaded == rpc = "file_loaded"

\* an id that is there and is an integer
IsIntegerId(jv) == jv.kind = "number" /\ \A i \in 1..Len(jv.text) : jv.text[i] # "."

\* corrupt or unparseable content, by the claim's list
Corrupt(file) ==
    /\ file # <<>>
    /\ \/ ~file[1].parses
       \/ ~file[1].object
       \/ ~IsIntegerId(file[1].chat_id)
       \/ ~IsIntegerId(file[1].message_id)

\* C19 as stated: load_message_ref returns None without raising when the file
\* is absent, and likewise when the content is invalid JSON or chat_id or
\* message_id is missing or not an integer; a file written by
\* save_message_ref loads back as the same MessageReference.
C19_CorruptIsAbsent ==
    Loaded =>
        /\ ~out_statuses.raised
        /\ disk = <<>> => out_statuses.ref = <<>>
        /\ Corrupt(disk) => out_statuses.ref = <<>>
        /\ in_cfg.saved => out_statuses.ref = <<in_data>>

\* the values int() rejects, and what it makes of the others
RejectedIds == {JLit("missing"), JLit("null"), JLit("array"), JStr(<<"x">>)}
ConvertedId(jv) ==
    CASE jv = JNum(<<"7">>) -> 7
      [] jv = JNum(<<"-", "1", "0", "0">>) -> 0 - 100
      [] jv = JNum(<<"1", ".", "5">>) -> 1
      [] jv = JStr(<<"1", "2">>) -> 12
      [] jv = JLit("true") -> 1

Unusable(file) ==
    \/ file = <<>>
    \/ ~file[1].parses
    \/ ~file[1].object
    \/ file[1].chat_id \in RejectedIds
    \/ file[1].message_id \in RejectedIds

\* C19: load_message_ref never raises; it returns None when the file is
\* absent, is not JSON, is no JSON object, or an id is missing or is a value
\* int() rejects (null, non-numeric text, a list); ids int() converts (a
\* numeric string, a float, a boolean) are loaded as the converted integers;
\* a file written by save_message_ref loads back as the same MessageReference.
C19_StateFileLoad ==
    Loaded =>
        /\ ~out_statuses.raised
        /\ in_cfg.saved => out_statuses.ref = <<in_data>>
        /\ ~in_cfg.saved =>
             IF Unusable(disk) THEN out_statuses.ref = <<>>
             ELSE out_statuses.ref =
                    <<[chat_id |-> ConvertedId(disk[1].chat_id),
                       message_id |-> ConvertedId(disk[1].message_id)]>>

\* a file whose message_id is null, after a save that could not open the file
C19_Witness ==
    /\ Loaded
    /\ ~in_cfg.saved
    /\ disk # <<>> /\ disk[1].parses /\ disk[1].object
    /\ disk[1].chat_id = JNum(<<"-", "1", "0", "0">>)
    /\ disk[1].message_id = JLit("null")
    /\ out_statuses = [raised |-> FALSE, ref |-> <<>>]

-----------------------------------------------------------------------------
(* Cycle Scheduler *)

\* a step that is a whole run of update_cycle up to its first await
CycleStarts == pc = "idle" /\ hist'.inits = hist.inits /\ hist' # hist

\* the state file holds nothing load_message_ref can use
NoUsableFile == disk = <<>> \/ ~disk[1].parses \/ ~disk[1].object

\* C15: a cycle that renders while no reference resolves (no override, empty
\* in-memory reference, state file absent or invalid) calls no edit, raises
\* nothing and leaves last_hash as it was; so does every such cycle.
C15_UninitializedSteadyState ==
    [][(/\ CycleResolves
        /\ ~(cfg.telegram_chat_id # <<>> /\ cfg.telegram_message_id # <<>>)
        /\ state.msg_ref = <<>>
        /\ NoUsableFile)
       => /\ hist'.last.outcome = "noref"
          /\ hist'.last.edits = 0
          /\ pc' = "idle"
          /\ ~hist'.escaped
          /\ state'.last_hash = state.last_hash]_vars

\* a second cycle in a row without reference, after an /init_status whose
\* save left an unusable file
C15_Witness ==
    /\ pc = "idle"
    /\ hist.last.outcome = "noref"
    /\ hist.last.repeat
    /\ hist.last.edits = 0
    /\ hist.init_ref # <<>>
    /\ disk # <<>> /\ ~disk[1].parses
    /\ state = [msg_ref |-> <<>>, last_hash |-> <<>>]

\* C16 as stated: CycleState (msg_ref and last_hash) changes only in the step
\* in which a cycle's edit succeeds; a cycle that is suppressed, finds no
\* reference, fails its query or exhausts its retries leaves both fields as
\* they were.
C16_CycleStateFrame ==
    [][state' # state => (pc = "edit" /\ hist'.last.outcome = "edited")]_vars

\* C18: a cycle in which a query fails (the only one, or either of the two
\* the board makes) renders nothing, calls no edit, leaves CycleState as it
\* was and the scheduler idle for the next cycle; a board with a foreign
\* vantage is rendered only when both queries answered.
C18_QueryFailure ==
    [][CycleStarts =>
        LET two == cfg.status_template = "board_zh" /\ cfg.foreign_probe_node # <<>>
            failed == ~hist'.last.q_ok[1] \/ (two /\ ~hist'.last.q_ok[2])
        IN /\ (cfg.has_template /\ failed) =>
                /\ ~hist'.last.rendered
                /\ hist'.last.outcome = "error"
                /\ hist'.last.edits = 0
                /\ state' = state
                /\ pc' = "idle" /\ cyc' = NoCycle
                /\ ~hist'.escaped
           /\ hist'.last.rendered => ~failed]_vars

\* the foreign query of a board cycle failed after an earlier cycle published
C18_Witness ==
    /\ pc = "idle"
    /\ cfg.status_template = "board_zh" /\ cfg.foreign_probe_node # <<>>
    /\ hist.last.outcome = "error"
    /\ hist.last.q_ok = <<TRUE, FALSE>>
    /\ state.last_hash # <<>>

-----------------------------------------------------------------------------
(* NodeStatus *)

\* C20: every NodeStatus reduce_status produces has degraded only when up, a
\* reason only when it is down and its window holds no liveness sample, and a
\* latency only when up.
C20_NodeStatusInvariant ==
    Reduced =>
        \A i \in 1..Len(out_statuses) :
            LET ns == out_statuses[i]
                w == in_data[i].node
            IN /\ ns.degraded => ns.up
               /\ ns.reason # <<>> => (~ns.up /\ w.alive = <<>> /\ w.alive_time = <<>>)
               /\ ns.latency_ms # <<>> => ns.up

\* a node reported not alive whose window holds a latency: the status carries
\* neither latency nor reason
C20_Witness ==
    /\ Reduced
    /\ \E i \in 1..Len(out_statuses) :
        /\ in_data[i].node.alive = <<FALSE>>
        /\ in_data[i].node.latency_ms = <<0>>
        /\ out_statuses[i].latency_ms = <<>>
        /\ out_statuses[i].reason = <<>>
        /\ ~out_statuses[i].up /\ ~out_statuses[i].degraded

-----------------------------------------------------------------------------
(* Window Reducer: equal timestamps *)

\* the samples of S that carry the maximal timestamp of S
NewestOf(stream, S) == {i \in S : \A j \in S : stream[j].t[1] <= stream[i].t[1]}
LastOf(S) == CHOOSE i \in S : \A j \in S : j <= i

\* the value retained for a metric is that of the last sample in the sequence
\* among those of maximal timestamp, whenever there are several
TieGoesToLast(stream, S, value, is_bool) ==
    Cardinality(NewestOf(stream, S)) > 1 =>
        value = (IF is_bool THEN <<stream[LastOf(NewestOf(stream, S))].value>>
                 ELSE stream[LastOf(NewestOf(stream, S))].value)

\* C21 as stated: when two samples of the same node and metric carry the same
\* maximal timestamp, the one later in the sample sequence is retained.
C21_TiesLastWins ==
    \A e \in 1..Len(out_statuses) :
        LET n == out_statuses[e].name
            w == out_statuses[e].node
        IN /\ TieGoesToLast(in_data, SamplesOf(in_data, in_cfg.pos, n, "alive"),
                            w.alive, TRUE)
           /\ TieGoesToLast(in_data, SamplesOf(in_data, in_cfg.pos, n, "delay_ms"),
                            w.latency_ms, FALSE)

-----------------------------------------------------------------------------
(* CycleState after a publish *)

\* C22 as stated: after a cycle whose edit succeeded, CycleState's
\* MessageReference is the reference that was edited, however it was resolved.
C22_RefUpdatedOnSuccess ==
    hist.last.outcome = "edited" => state.msg_ref = hist.last.ref

-----------------------------------------------------------------------------
(* Template selection *)

\* C23 as stated: with a Config that load_config returned, every cycle picks
\* a template and gets to its query and render steps: it ends lines 92-155
\* normally or with a failed query, never because reading the template
\* selection, the vantage names or the degraded toggle failed.
C23_TemplateSelection ==
    (cfg \in LoadedConfigs /\ hist.last.outcome # "none")
        => hist.last.err \in {"", "QueryError"}

-----------------------------------------------------------------------------
(* Publisher: backoff *)

\* what a cycle has slept after f failed attempts: 1 unit after the first
\* failure, 2 more after the second, nothing after the third
SleptAfter(f) == IF f = 0 THEN 0 ELSE IF f = 1 THEN 1 ELSE 3

\* C24: a cycle sleeps 1 unit after its 1st failed attempt and 2 units after
\* its 2nd, not after a success nor after the 3rd failure, so at most 3 units;
\* while it sleeps the /init_status handler can still run.
C24_LinearBackoff ==
    /\ pc = "sleep" => (cyc.fails \in {1, 2} /\ cyc.slept = SleptAfter(cyc.fails))
    /\ pc = "edit" => cyc.slept = SleptAfter(cyc.fails)
    /\ hist.last.outcome = "edited" =>
          (hist.last.fails \in {0, 1, 2} /\ hist.last.slept = SleptAfter(hist.last.fails))
    /\ hist.last.outcome = "exhausted" => (hist.last.fails = 3 /\ hist.last.slept = 3)
    /\ (pc = "sleep" /\ hist.inits < MaxInits)
          => ENABLED (\E kind \in InitKinds, save \in SaveOutcomes : init_status(kind, save))

\* the second sleep of a cycle, during which /init_status has posted a message
C24_Witness ==
    /\ pc = "sleep"
    /\ cyc.fails = 2
    /\ cyc.slept = 3
    /\ hist.init_ref # <<>>
    /\ cyc.init_seen = <<>>

-----------------------------------------------------------------------------
(* Change Detector: fingerprint *)

\* C25: last_hash is unset, or it is the fingerprint of the text passed to
\* the most recent successful edit; a text whose edit failed, was suppressed
\* or was never attempted never gets its fingerprint stored.
C25_FingerprintInvariant ==
    \/ state.last_hash = None
    \/ /\ hist.published # None
       /\ state.last_hash = Some(payload_hash(Get(hist.published)))

\* after a successful edit a later cycle rendered another text and all of its
\* edits failed
C25_Witness ==
    /\ state.last_hash # None
    /\ hist.published # None
    /\ hist.last.outcome = "exhausted"
    /\ hist.last.text # Get(hist.published)

-----------------------------------------------------------------------------
(* Change Detector: the clock reading is part of the rendered text *)

\* the lines of a rendered text other than the one with the clock reading
\* (the only line with a year in it)
BodyLines(text) ==
    SelectSeq(SplitLines(text), LAMBDA l : \A i \in 1..Len(l) : l[i] # "2025")

\* a cycle starts, renders and resolves a reference after an earlier cycle
\* has published
RendersAfterPublish ==
    /\ CycleStarts
    /\ hist'.last.rendered
    /\ hist'.last.ref # None
    /\ hist.published # None

\* C26: both templates embed the clock reading to the second: a cycle that
\* starts in another second than the cycle that last published renders another
\* text with another fingerprint and calls the edit, whatever its snapshot;
\* a cycle is suppressed only in the second of the last publish.
C26_ClockInFingerprint ==
    [][RendersAfterPublish =>
         /\ hist'.last.second # Get(hist.pub_second) =>
               /\ hist'.last.text # Get(hist.published)
               /\ Some(hist'.last.h) # state.last_hash
               /\ pc' = "edit"
         /\ hist'.last.outcome = "nochange" =>
               hist'.last.second = Get(hist.pub_second)]_vars

\* a cycle calls the edit for the snapshot that was last published, rendered
\* in another second
C26_Witness ==
    /\ pc = "edit"
    /\ hist.published # None
    /\ state.last_hash # None
    /\ cyc.second # Get(hist.pub_second)
    /\ BodyLines(cyc.text) = BodyLines(Get(hist.published))

-----------------------------------------------------------------------------
(* Cycle Scheduler: progress *)

\* main_async lines 51-55: run_repeating starts update_cycle every interval,
\* so an idle job is started again; inside a cycle the awaited sleep ends and
\* the awaited edit_message_text returns or raises
Fairness ==
    /\ WF_vars(\E now \in 0..MaxNow, q1 \in FirstAnswers(cfg), q2 \in SecondAnswers(cfg) :
                  Tick(now, q1, q2))
    /\ WF_vars(Wake)
    /\ WF_vars(EditOk \/ EditFail)

\* the process started with a cfg object whose cycles get to render, with
\* and without a configured reference
InitLive ==
    /\ Init
    /\ cfg \in TemplateConfigs
    /\ cfg.status_template = "list"
    /\ <<cfg.telegram_chat_id, cfg.telegram_message_id>> \in {NoOverride, FullOverride}

SpecLive == InitLive /\ [][Next]_vars /\ Fairness

\* from some cycle onward every cycle renders the text of the cycle before it
\* and resolves a reference
TextStays == hist.last.rendered /\ hist.last.repeat /\ hist.last.ref # None

\* C27: if from some cycle onward the rendered text stays the same and a
\* reference resolves, and the edit succeeds on some attempt whenever edits
\* keep being attempted, then eventually last_hash is the fingerprint of that
\* text and no edit is invoked any more; retries exhausted earlier do not
\* prevent it.
C27_EventualPublish ==
    (SF_vars(EditOk) /\ <>[]TextStays)
        => <>[](state.last_hash = Some(hist.last.h) /\ pc = "idle")

\* with a configured reference, a cycle publishes the text that the cycle
\* before it had rendered and failed to publish in three attempts
C27_Witness ==
    /\ HasOverride(cfg)
    /\ pc = "idle"
    /\ hist.last.outcome = "edited"
    /\ hist.last.repeat
    /\ state.last_hash = Some(hist.last.h)

====
